---- MODULE Spec2Model ----
(***************************************************************************)
(* A model of the page-structured record store: PagedFile (paged_file.rs)  *)
(* and RecordBasedFileMgr (record_based_file_mgr.rs), at the level of the  *)
(* bytes of the file.  A file is the sequence of its bytes; a page is a    *)
(* sequence of PAGE_SIZE bytes; every operator below computes what the     *)
(* Rust function of the same name computes.                                *)
(*                                                                         *)
(* Sequences are 1-based in TLA+ and 0-based in Rust: the byte at Rust     *)
(* offset k of a buffer b is b[k + 1].                                     *)
(*                                                                         *)
(* TLC's integers are 32-bit signed.  A u32 read from four bytes is        *)
(* carried as the signed integer with the same bit pattern: a negative     *)
(* carrier is a value >= 2^31, larger than every size the model compares   *)
(* it with.                                                                *)
(***************************************************************************)
EXTENDS Integers, Sequences, FiniteSets, TLC

(***************************************************************************)
(* Bounds of the model.                                                    *)
(*                                                                         *)
(* PAGE_SIZE is 8 * 1024 in record_based_file_mgr.rs:17 (and 16 in the     *)
(* tests of paged_file.rs:104, PagedFile being generic in it).  All the    *)
(* layout arithmetic is relative to PAGE_SIZE; the model checks a small    *)
(* page so that a page fills up within a few inserts.                      *)
(***************************************************************************)
PAGE_SIZE == 64

\* Successful inserts per behaviour.
MaxInserts == 4

\* Pages a PagedFile grows to under SpecPF.
MaxPages == 3

\* Longest Varchar the schema of the model declares (20 in rbfm_insert_test).
MaxVarchar == 3

(***************************************************************************)
(* Program constants.                                                      *)
(***************************************************************************)
HEADER_LEN == 8

HDR_SIZE == 12

RECORD_ENTRY_SIZE == 8

Byte == 0..255

(***************************************************************************)
(* Little-endian integers.                                                 *)
(***************************************************************************)
\* Smallest i32, written without the literal 2^31 that TLC cannot hold.
I32_MIN == (-2147483647) - 1

\* u16::to_le_bytes
u16_to_le_bytes(v) == << v % 256, (v \div 256) % 256 >>

\* u16::from_le_bytes
u16_from_le_bytes(b) == b[1] + 256 * b[2]

\* i32::to_le_bytes; also u32 -> bytes for a u32 carried as its bit pattern.
i32_to_le_bytes(v) ==
    LET u == IF v >= 0 THEN v ELSE (v + 2147483647) + 1
        top == IF v >= 0 THEN 0 ELSE 128
    IN  << u % 256, (u \div 256) % 256, (u \div 65536) % 256,
           ((u \div 16777216) % 128) + top >>

\* i32::from_le_bytes; also bytes -> u32 carried as its bit pattern.
i32_from_le_bytes(b) ==
    LET low == b[1] + 256 * b[2] + 65536 * b[3] + 16777216 * (b[4] % 128)
    IN  IF b[4] >= 128 THEN (low - 2147483647) - 1 ELSE low

\* u64::to_le_bytes of a value below 2^31.
u64_to_le_bytes(v) == i32_to_le_bytes(v) \o << 0, 0, 0, 0 >>

\* u64::from_le_bytes, or -1 for a value of 2^31 or more (which no buffer
\* of the model can hold that many entries of).
u64_from_le_bytes(b) ==
    IF b[5] = 0 /\ b[6] = 0 /\ b[7] = 0 /\ b[8] = 0 /\ b[4] < 128
    THEN i32_from_le_bytes(SubSeq(b, 1, 4))
    ELSE -1

\* buf with data written at Rust offset off (off + Len(data) <= Len(buf)).
WriteAt(buf, off, data) ==
    [k \in 1..Len(buf) |->
        IF k > off /\ k <= off + Len(data) THEN data[k - off] ELSE buf[k]]

\* F(e), with e evaluated once: x \in {e} binds x to the value of e, where a
\* LET definition is an expression that may be evaluated again at each use.
With(e, F(_)) == CHOOSE v \in {F(x) : x \in {e}} : TRUE

\* The bytes [off, off + len) of buf.
Slice(buf, off, len) == SubSeq(buf, off + 1, off + len)

(***************************************************************************)
(* Results of the fallible operations: Result<T> of std::io, plus the two  *)
(* ways a call does not return: a panic (unwrap of an Err, a failed        *)
(* bounds or overflow check) and unbounded recursion.                      *)
(***************************************************************************)
\* err is the ErrorKind of an io::Error and msg the text it was built from,
\* as the sequence of its pieces (empty where the model does not tell the
\* messages of a kind apart).
Ok(v) == [kind |-> "ok", err |-> "", msg |-> << >>, val |-> v]

Err(e) == [kind |-> "err", err |-> e, msg |-> << >>, val |-> << >>]

\* Error::new(kind, msg)
ErrMsg(e, msg) == [kind |-> "err", err |-> e, msg |-> msg, val |-> << >>]

Panic == [kind |-> "panic", err |-> "", msg |-> << >>, val |-> << >>]

Diverge == [kind |-> "diverge", err |-> "", msg |-> << >>, val |-> << >>]

(***************************************************************************)
(* Page (page.rs)                                                          *)
(***************************************************************************)
\* Page::new: a zero-filled buffer.
PageNew == [k \in 1..PAGE_SIZE |-> 0]

\* Page::new_from_buf([v; PAGE_SIZE])
PageFilled(v) == [k \in 1..PAGE_SIZE |-> v]

(***************************************************************************)
(* PagedFile (paged_file.rs).  bytes is the whole content of the file.     *)
(***************************************************************************)
\* The header PagedFile::create writes: the page size, u64 little-endian.
FileHeader(page_size) == u64_to_le_bytes(page_size)

\* PagedFile::num_pages
num_pages(bytes) == (Len(bytes) - HEADER_LEN) \div PAGE_SIZE

\* A seek that forgets the header of the file: page pagenum at
\* pagenum * PAGE_SIZE.
seek_no_header(bytes, pagenum) ==
    IF num_pages(bytes) < pagenum
    THEN Err("NotFound")
    ELSE Ok(pagenum * PAGE_SIZE)

\* PagedFile::seek: the new file position, or the not-found error.
seek(bytes, pagenum) ==
    IF num_pages(bytes) < pagenum
    THEN Err("NotFound")
    ELSE Ok(HEADER_LEN + pagenum * PAGE_SIZE)

\* File::read_exact of PAGE_SIZE bytes at position pos.
read_exact_page(bytes, pos) ==
    IF pos + PAGE_SIZE > Len(bytes)
    THEN Err("UnexpectedEof")
    ELSE Ok(Slice(bytes, pos, PAGE_SIZE))

\* File::write_all of a page at position pos <= Len(bytes): the new content.
write_all_page(bytes, pos, page) ==
    [k \in 1..(IF pos + PAGE_SIZE > Len(bytes) THEN pos + PAGE_SIZE ELSE Len(bytes)) |->
        IF k > pos /\ k <= pos + PAGE_SIZE THEN page[k - pos] ELSE bytes[k]]

\* PagedFile::read_page: the page read, or the error.
read_page(bytes, pagenum) ==
    LET s == seek(bytes, pagenum)
    IN  IF s.kind # "ok" THEN s ELSE read_exact_page(bytes, s.val)

\* PagedFile::write_page: the new content of the file, or the error.
write_page(bytes, pagenum, page) ==
    LET s == seek(bytes, pagenum)
    IN  IF s.kind # "ok" THEN s ELSE Ok(write_all_page(bytes, s.val, page))

\* PagedFile::append_page: the new content of the file.
append_page(bytes, page) == Ok(write_all_page(bytes, Len(bytes), page))

(***************************************************************************)
(* Bitmap (bitmap.rs): [bmp: the packed bytes, size: the number of bits].  *)
(***************************************************************************)
\* Bitmap::bmp_size_in_bytes
bmp_size_in_bytes(size) ==
    LET quot == size \div 8
        rem == size % 8
    IN  IF rem # 0 THEN quot + 1 ELSE quot

\* 1 << bit_idx
BitMask(bit_idx) == 2 ^ bit_idx

\* Bitmap::new
bmp_new(size) == [bmp |-> [k \in 1..bmp_size_in_bytes(size) |-> 0], size |-> size]

\* Bitmap::new_with_vec (the caller passes bmp_size_in_bytes(size) bytes)
bmp_new_with_vec(size, bytes) == [bmp |-> bytes, size |-> size]

\* Bitmap::get, for idx < b.size (the call panics otherwise)
bmp_get(b, idx) ==
    LET byte == b.bmp[(idx \div 8) + 1]
    IN  (byte \div BitMask(idx % 8)) % 2 = 1

\* Bitmap::set, for idx < b.size (the call panics otherwise)
bmp_set(b, idx) ==
    [bmp |-> [k \in 1..Len(b.bmp) |->
                 IF k = (idx \div 8) + 1 /\ ~bmp_get(b, idx)
                 THEN b.bmp[k] + BitMask(idx % 8)
                 ELSE b.bmp[k]],
     size |-> b.size]

(***************************************************************************)
(* Attributes (attribute.rs).                                              *)
(*   AttributeType  [t: "Int" | "Real" | "Varchar", len: the Varchar bound]*)
(*   Attribute      [name, attribute_type]                                 *)
(*   AttributeValue [t: "Int", v: an i32]                                  *)
(*                  [t: "Real", v: an f64, as its IEEE 754 fields]         *)
(*                  [t: "Varchar", v: a String, as its UTF-8 bytes]        *)
(* A record (HashMap<String, AttributeValue>) is a function from the set   *)
(* of its keys.                                                            *)
(***************************************************************************)
IntType == [t |-> "Int", len |-> 0]

RealType == [t |-> "Real", len |-> 0]

VarcharType(max) == [t |-> "Varchar", len |-> max]

IntVal(i) == [t |-> "Int", v |-> i]

\* An f64: sign bit, 11-bit exponent, 52-bit fraction as 4 + 24 + 24 bits.
RealVal(sign, exp, hi, mid, lo) ==
    [t |-> "Real", v |-> [sign |-> sign, exp |-> exp, hi |-> hi, mid |-> mid, lo |-> lo]]

VarcharVal(bytes) == [t |-> "Varchar", v |-> bytes]

\* f64::to_le_bytes
f64_to_le_bytes(x) ==
    << x.lo % 256, (x.lo \div 256) % 256, x.lo \div 65536,
       x.mid % 256, (x.mid \div 256) % 256, x.mid \div 65536,
       (x.exp % 16) * 16 + x.hi, x.sign * 128 + (x.exp \div 16) >>

\* f64::from_le_bytes
f64_from_le_bytes(b) ==
    [sign |-> b[8] \div 128,
     exp  |-> (b[8] % 128) * 16 + (b[7] \div 16),
     hi   |-> b[7] % 16,
     mid  |-> b[4] + 256 * b[5] + 65536 * b[6],
     lo   |-> b[1] + 256 * b[2] + 65536 * b[3]]

\* A continuation byte of UTF-8.
IsCont(x) == x >= 128 /\ x <= 191

\* Whether the bytes from Rust offset i on are well-formed UTF-8.
RECURSIVE Utf8From(_, _)
Utf8From(b, i) ==
    IF i >= Len(b) THEN TRUE
    ELSE LET b0 == b[i + 1]
             left == Len(b) - i
         IN  IF b0 < 128 THEN Utf8From(b, i + 1)
             ELSE IF b0 >= 194 /\ b0 <= 223
             THEN left >= 2 /\ IsCont(b[i + 2]) /\ Utf8From(b, i + 2)
             ELSE IF b0 >= 224 /\ b0 <= 239
             THEN /\ left >= 3
                  /\ IsCont(b[i + 2])
                  /\ (b0 = 224 => b[i + 2] >= 160)
                  /\ (b0 = 237 => b[i + 2] <= 159)
                  /\ IsCont(b[i + 3])
                  /\ Utf8From(b, i + 3)
             ELSE IF b0 >= 240 /\ b0 <= 244
             THEN /\ left >= 4
                  /\ IsCont(b[i + 2])
                  /\ (b0 = 240 => b[i + 2] >= 144)
                  /\ (b0 = 244 => b[i + 2] <= 143)
                  /\ IsCont(b[i + 3])
                  /\ IsCont(b[i + 4])
                  /\ Utf8From(b, i + 4)
             ELSE FALSE

\* String::from_utf8(bytes).is_ok()
IsUtf8(b) == Utf8From(b, 0)

\* The record with no attribute present (HashMap::new()).
EmptyRecord == [k \in {} |-> 0]

\* The bytes a value is stored as (write_record_into_buf, the match on attr_val).
ValueBytes(val) ==
    IF val.t = "Int" THEN i32_to_le_bytes(val.v)
    ELSE IF val.t = "Real" THEN f64_to_le_bytes(val.v)
    ELSE val.v

(***************************************************************************)
(* The slot directory (record_based_file_mgr.rs).                          *)
(*   SlotDirectoryRecordEntry [length: u32, offset: i32]                   *)
(*   SlotDirectoryHeader      [data_start_offset: u32, slots_vec]          *)
(* serialized by bincode: data_start_offset (4 bytes), the number of       *)
(* entries (8 bytes), then length and offset (4 + 4 bytes) of each entry.  *)
(***************************************************************************)
\* i32::MAX; also stands for a usize of 2^31 or more where the code
\* compares one with a size of the model.
I32_MAX == -(I32_MIN + 1)

\* A u32 carried as its bit pattern, as the usize the code compares.
AsUsize(x) == IF x < 0 THEN I32_MAX ELSE x

RECURSIVE SerializeSlots(_)
SerializeSlots(slots) ==
    IF slots = << >> THEN << >>
    ELSE i32_to_le_bytes(Head(slots).length) \o i32_to_le_bytes(Head(slots).offset)
         \o SerializeSlots(Tail(slots))

\* bincode::serialize of a SlotDirectoryHeader
SerializeHdr(hdr) ==
    i32_to_le_bytes(hdr.data_start_offset) \o u64_to_le_bytes(Len(hdr.slots_vec))
    \o SerializeSlots(hdr.slots_vec)

\* bincode::serialized_size of a SlotDirectoryHeader
serialized_size(hdr) == HDR_SIZE + RECORD_ENTRY_SIZE * Len(hdr.slots_vec)

\* A status that does not know Dead: an entry of length 0 and offset 0 is
\* Valid.
status_no_dead(slot, checked) ==
    IF slot.offset < 0
    THEN IF slot.offset = I32_MIN
         THEN IF checked THEN [s |-> "Panic"]
              ELSE [s |-> "Moved", page_num |-> slot.length, slot_num |-> I32_MIN]
         ELSE [s |-> "Moved", page_num |-> slot.length, slot_num |-> -slot.offset]
    ELSE [s |-> "Valid"]

\* SlotDirectoryRecordEntry::status; the target of a Moved entry is
\* {page_num: length, slot_num: -offset as u32}, and -offset overflows for
\* i32::MIN: a panic with overflow checks, i32::MIN (2^31 as u32) without.
status(slot, checked) ==
    IF slot.length = 0 /\ slot.offset = 0 THEN [s |-> "Dead"]
    ELSE IF slot.offset < 0
    THEN IF slot.offset = I32_MIN
         THEN IF checked THEN [s |-> "Panic"]
              ELSE [s |-> "Moved", page_num |-> slot.length, slot_num |-> I32_MIN]
         ELSE [s |-> "Moved", page_num |-> slot.length, slot_num |-> -slot.offset]
    ELSE [s |-> "Valid"]

\* An init_rb_page that starts the data region below the space of the
\* header: data_start_offset PAGE_SIZE - HDR_SIZE.
init_rb_page_short(page) ==
    WriteAt([k \in 1..Len(page) |-> 0], 0,
            SerializeHdr([data_start_offset |-> PAGE_SIZE - HDR_SIZE, slots_vec |-> << >>]))

\* RecordBasedFileMgr::init_rb_page
init_rb_page(page) ==
    WriteAt([k \in 1..Len(page) |-> 0], 0,
            SerializeHdr([data_start_offset |-> PAGE_SIZE, slots_vec |-> << >>]))

\* RecordBasedFileMgr::get_slot_directory_hdr: bincode::deserialize(..).unwrap()
\* panics when the buffer ends before the entries the count announces.
get_slot_directory_hdr(page) ==
    LET n == u64_from_le_bytes(Slice(page, 4, 8))
    IN  IF n < 0 \/ n > (Len(page) - HDR_SIZE) \div RECORD_ENTRY_SIZE
        THEN Panic
        ELSE Ok([data_start_offset |-> i32_from_le_bytes(Slice(page, 0, 4)),
                 slots_vec |->
                    [j \in 1..n |->
                        [length |-> i32_from_le_bytes(
                                        Slice(page, HDR_SIZE + RECORD_ENTRY_SIZE * (j - 1), 4)),
                         offset |-> i32_from_le_bytes(
                                        Slice(page, HDR_SIZE + RECORD_ENTRY_SIZE * (j - 1) + 4, 4))]]])

\* RecordBasedFileMgr::write_slot_directory_hdr: serialize_into(..).unwrap()
\* panics when the header does not fit in the page.
write_slot_directory_hdr(page, hdr) ==
    IF serialized_size(hdr) > Len(page)
    THEN Panic
    ELSE Ok(WriteAt(page, 0, SerializeHdr(hdr)))

\* RecordBasedFileMgr::free_space: data_start_offset as usize - hdr_size.
\* The subtraction underflows when the header is larger than the offset: a
\* panic with overflow checks (debug build), 2^64 - (hdr_size - offset)
\* without (release build).
free_space(hdr, checked) ==
    LET hdr_size == serialized_size(hdr)
    IN  IF hdr.data_start_offset < 0 THEN Ok(I32_MAX)
        ELSE IF hdr.data_start_offset >= hdr_size
        THEN Ok(hdr.data_start_offset - hdr_size)
        ELSE IF checked THEN Panic ELSE Ok(I32_MAX)

\* RecordBasedFileMgr::null_bitmap_len
null_bitmap_len(attrs_len) == bmp_size_in_bytes(attrs_len)

\* RecordBasedFileMgr::attribute_type_matches_value
attribute_type_matches_value(attr_type, attr_val) ==
    IF attr_type.t = "Int" THEN attr_val.t = "Int"
    ELSE IF attr_type.t = "Real" THEN attr_val.t = "Real"
    ELSE IF attr_val.t = "Varchar" THEN Len(attr_val.v) <= attr_type.len
    ELSE FALSE

\* The loop of record_size from attribute i (0-based) on:
\* [offset_headers_len, data_len] or the type-mismatch error.
RECURSIVE record_size_loop(_, _, _, _, _)
record_size_loop(attributes, insert_vals, i, offset_headers_len, data_len) ==
    IF i >= Len(attributes)
    THEN Ok([offset_headers_len |-> offset_headers_len, data_len |-> data_len])
    ELSE LET attr == attributes[i + 1]
         IN  IF attr.name \notin DOMAIN insert_vals
             THEN record_size_loop(attributes, insert_vals, i + 1, offset_headers_len, data_len)
             ELSE LET attr_val == insert_vals[attr.name]
                  IN  IF ~attribute_type_matches_value(attr.attribute_type, attr_val)
                      THEN Err("InvalidInput")
                      ELSE record_size_loop(attributes, insert_vals, i + 1,
                               offset_headers_len + 2,
                               data_len + (IF attr_val.t = "Int" THEN 4
                                           ELSE IF attr_val.t = "Real" THEN 8
                                           ELSE Len(attr_val.v)))

\* A record_size that charges an offset header for every key of
\* insert_vals, attribute of the schema or not.
record_size_all_keys(attributes, insert_vals) ==
    LET bmp_len == null_bitmap_len(Len(attributes))
        num_attributes_len == 2
        r == record_size_loop(attributes, insert_vals, 0, 0, 0)
    IN  IF r.kind # "ok" THEN r
        ELSE Ok(bmp_len + num_attributes_len + 2 * Cardinality(DOMAIN insert_vals)
                  + r.val.data_len)

\* A record_size that leaves out the two bytes of the attribute count.
record_size_no_count(attributes, insert_vals) ==
    LET bmp_len == null_bitmap_len(Len(attributes))
        r == record_size_loop(attributes, insert_vals, 0, 0, 0)
    IN  IF r.kind # "ok" THEN r
        ELSE Ok(bmp_len + r.val.offset_headers_len + r.val.data_len)

\* RecordBasedFileMgr::record_size
record_size(attributes, insert_vals) ==
    LET bmp_len == null_bitmap_len(Len(attributes))
        num_attributes_len == 2
        r == record_size_loop(attributes, insert_vals, 0, 0, 0)
    IN  IF r.kind # "ok" THEN r
        ELSE Ok(bmp_len + num_attributes_len + r.val.offset_headers_len + r.val.data_len)

\* RecordBasedFileMgr::required_space: record_size(..).unwrap()
required_space(attributes, insert_vals) ==
    LET r == record_size(attributes, insert_vals)
    IN  IF r.kind # "ok" THEN Panic ELSE Ok(RECORD_ENTRY_SIZE + r.val)

(***************************************************************************)
(* The record codec.                                                       *)
(***************************************************************************)
\* Cursor<&mut [u8]>::write_all at position pos: the bytes that fit are
\* written, and the call fails when not all of them do.
CursorWrite(buf, pos, data) ==
    LET room == IF pos >= Len(buf) THEN 0 ELSE Len(buf) - pos
        n == IF Len(data) <= room THEN Len(data) ELSE room
    IN  [ok |-> n = Len(data),
         buf |-> IF n = 0 THEN buf ELSE WriteAt(buf, pos, SubSeq(data, 1, n))]

\* The first loop of write_record_into_buf: the null bitmap, from attribute i on.
RECURSIVE NullBitmap(_, _, _, _)
NullBitmap(attributes, insert_vals, i, bmp) ==
    IF i >= Len(attributes) THEN bmp
    ELSE With(IF attributes[i + 1].name \in DOMAIN insert_vals
              THEN bmp_set(bmp, i) ELSE bmp,
         LAMBDA b : NullBitmap(attributes, insert_vals, i + 1, b))

\* The number of bits set among the first n bits of a bitmap.
CountSet(bmp, n) == Cardinality({i \in 0..(n - 1) : bmp_get(bmp, i)})

\* The second loop of write_record_into_buf, from attribute i on.  st is
\* [res, buf, data_offset, bytes_written, offset_hdrs].
RECURSIVE write_values(_, _, _, _, _)
write_values(attributes, insert_vals, bmp, i, st) ==
    IF i >= Len(attributes) THEN st
    ELSE IF ~bmp_get(bmp, i) THEN write_values(attributes, insert_vals, bmp, i + 1, st)
    ELSE LET attr == attributes[i + 1]
             attr_val == insert_vals[attr.name]
         IN  IF ~attribute_type_matches_value(attr.attribute_type, attr_val)
             THEN [st EXCEPT !.res = Err("InvalidInput")]
             ELSE With(ValueBytes(attr_val), LAMBDA bytes :
                  With(CursorWrite(st.buf, st.data_offset, bytes), LAMBDA w :
                  IF ~w.ok
                  THEN [st EXCEPT !.res = Panic, !.buf = w.buf]
                  ELSE With([res |-> st.res,
                             buf |-> w.buf,
                             data_offset |-> st.data_offset + Len(bytes),
                             bytes_written |-> st.bytes_written + Len(bytes),
                             offset_hdrs |-> Append(st.offset_hdrs,
                                               (st.data_offset + Len(bytes)) % 65536)],
                       LAMBDA st2 : write_values(attributes, insert_vals, bmp, i + 1, st2))))

RECURSIVE SerializeU16s(_)
SerializeU16s(s) ==
    IF s = << >> THEN << >> ELSE u16_to_le_bytes(Head(s)) \o SerializeU16s(Tail(s))

\* write_record_into_buf from line 351 on: the headers are written at the
\* start of the buffer, each write returning its error.
write_headers(st, num_attributes, bmp) ==
    With(CursorWrite(st.buf, 0, u16_to_le_bytes(num_attributes)), LAMBDA w1 :
    IF ~w1.ok THEN [res |-> Err("WriteZero"), buf |-> w1.buf]
    ELSE With(CursorWrite(w1.buf, 2, bmp.bmp), LAMBDA w2 :
    IF ~w2.ok THEN [res |-> Err("WriteZero"), buf |-> w2.buf]
    ELSE With(CursorWrite(w2.buf, 2 + Len(bmp.bmp), SerializeU16s(st.offset_hdrs)), LAMBDA w3 :
    IF ~w3.ok THEN [res |-> Err("WriteZero"), buf |-> w3.buf]
    ELSE [res |-> Ok(st.bytes_written + 2 + Len(bmp.bmp) + 2 * Len(st.offset_hdrs)),
          buf |-> w3.buf])))

\* RecordBasedFileMgr::write_record_into_buf: [res, buf], where res is the
\* number of bytes written and buf the buffer afterwards.
write_record_into_buf(attributes, buf, insert_vals) ==
    LET num_attributes == Len(attributes) % 65536
        bmp_len == null_bitmap_len(Len(attributes))
    IN  With(NullBitmap(attributes, insert_vals, 0, bmp_new(num_attributes)), LAMBDA bmp :
        With(write_values(attributes, insert_vals, bmp, 0,
                 [res |-> Ok(0), buf |-> buf,
                  data_offset |-> 2 + bmp_len + CountSet(bmp, num_attributes) * 2,
                  bytes_written |-> 0, offset_hdrs |-> << >>]), LAMBDA st :
        IF st.res.kind # "ok" THEN [res |-> st.res, buf |-> st.buf]
        ELSE write_headers(st, num_attributes, bmp)))

\* A map that takes its first entry only.
MapInsert_first_only(results, name, val) ==
    IF DOMAIN results = {} THEN [k \in {name} |-> val] ELSE results

\* results with name mapped to val (HashMap::insert).
MapInsert(results, name, val) ==
    [k \in (DOMAIN results) \cup {name} |-> IF k = name THEN val ELSE results[k]]

\* The last loop of read_record_from_buf, from attribute i on.  st is
\* [pos, offset_idx, results]: the cursor, the number of values read and
\* the values read.
RECURSIVE read_values(_, _, _, _, _, _, _)
read_values(attributes, buf, bmp, offset_hdrs, i, st, checked) ==
    IF i >= Len(attributes) THEN Ok(st.results)
    ELSE IF i >= bmp.size THEN Panic
    ELSE IF ~bmp_get(bmp, i)
    THEN read_values(attributes, buf, bmp, offset_hdrs, i + 1, st, checked)
    ELSE LET attr == attributes[i + 1]
             ty == attr.attribute_type
             pos == st.pos
             next(len, val) ==
                 With([pos |-> pos + len, offset_idx |-> st.offset_idx + 1,
                       results |-> MapInsert(st.results, attr.name, val)],
                      LAMBDA st2 : read_values(attributes, buf, bmp, offset_hdrs,
                                               i + 1, st2, checked))
         IN  IF ty.t = "Int"
             THEN IF pos + 4 > Len(buf) THEN Err("UnexpectedEof")
                  ELSE next(4, IntVal(i32_from_le_bytes(Slice(buf, pos, 4))))
             ELSE IF ty.t = "Real"
             THEN IF pos + 8 > Len(buf) THEN Err("UnexpectedEof")
                  ELSE next(8, [t |-> "Real", v |-> f64_from_le_bytes(Slice(buf, pos, 8))])
             ELSE LET end == offset_hdrs[st.offset_idx + 1]
                  IN  \* (end - curr) as usize: an underflow panics with overflow
                      \* checks, and wraps to a length above every bound without.
                      IF end < pos
                      THEN IF checked THEN Panic
                           ELSE ErrMsg("InvalidData", <<"Varchar larger than max len">>)
                      ELSE LET str_len == end - pos
                           IN  IF str_len > ty.len
                               THEN ErrMsg("InvalidData", <<"Varchar larger than max len">>)
                               ELSE IF pos + str_len > Len(buf) THEN Err("UnexpectedEof")
                               ELSE IF ~IsUtf8(Slice(buf, pos, str_len)) THEN Panic
                               ELSE next(str_len, VarcharVal(Slice(buf, pos, str_len)))

\* RecordBasedFileMgr::read_record_from_buf
read_record_from_buf(attributes, buf, checked) ==
    IF Len(buf) < 2 THEN Err("UnexpectedEof")
    ELSE LET num_attributes == u16_from_le_bytes(Slice(buf, 0, 2))
             bmp_len == bmp_size_in_bytes(num_attributes)
             hdrs_at == 2 + bmp_len
         IN  IF hdrs_at > Len(buf) THEN Err("UnexpectedEof")
             ELSE With(bmp_new_with_vec(num_attributes, Slice(buf, 2, bmp_len)), LAMBDA bmp :
                  With(CountSet(bmp, num_attributes), LAMBDA cnt :
                  IF hdrs_at + 2 * cnt > Len(buf) THEN Err("UnexpectedEof")
                  ELSE With([j \in 1..cnt |->
                                u16_from_le_bytes(Slice(buf, hdrs_at + 2 * (j - 1), 2))],
                       LAMBDA offset_hdrs :
                       read_values(attributes, buf, bmp, offset_hdrs, 0,
                           [pos |-> hdrs_at + 2 * cnt, offset_idx |-> 0,
                            results |-> EmptyRecord], checked))))

(***************************************************************************)
(* RecordBasedFileMgr::insert and ::read, on the bytes of the file.        *)
(* checked is whether the build checks arithmetic overflow and debug       *)
(* assertions (a debug build) or not (a release build).                    *)
(***************************************************************************)
RecordId(page_num, slot_num) == [page_num |-> page_num, slot_num |-> slot_num]

\* The scan of insert (lines 108-116) from page i on.  st is
\* [res, page, page_found, page_num]: page is the scratch buffer, which
\* every iteration reads the next page into.
RECURSIVE scan_pages(_, _, _, _, _)
scan_pages(bytes, required, i, st, checked) ==
    IF i >= num_pages(bytes) THEN st
    ELSE With(read_page(bytes, i), LAMBDA r :
         IF r.kind # "ok" THEN [st EXCEPT !.res = r]
         ELSE With(get_slot_directory_hdr(r.val), LAMBDA h :
         IF h.kind # "ok" THEN [st EXCEPT !.res = Panic]
         ELSE With(free_space(h.val, checked), LAMBDA f :
         IF f.kind # "ok" THEN [st EXCEPT !.res = Panic]
         ELSE With(IF f.val < required
                   THEN [st EXCEPT !.page = r.val]
                   ELSE [st EXCEPT !.page = r.val, !.page_found = TRUE, !.page_num = i],
              LAMBDA st2 : scan_pages(bytes, required, i + 1, st2, checked)))))

\* insert, lines 142-157: the record is written into the bytes of the page
\* reserved for it, and the page is written back or appended.
write_back(bytes, attributes, insert_vals, required, page_found, rid, starting_offset, page, checked) ==
    LET fail == [res |-> Panic, bytes |-> bytes]
    IN  IF starting_offset + required > Len(page) THEN fail
        ELSE With(write_record_into_buf(attributes,
                      Slice(page, starting_offset, required), insert_vals), LAMBDA rec :
             With(record_size(attributes, insert_vals), LAMBDA sz :
             IF rec.res.kind # "ok" THEN fail
             ELSE IF checked /\ (sz.kind # "ok" \/ rec.res.val # sz.val) THEN fail
             ELSE With(WriteAt(page, starting_offset, rec.buf), LAMBDA final :
                  With(IF page_found
                       THEN write_page(bytes, rid.page_num, final)
                       ELSE append_page(bytes, final), LAMBDA out :
                  IF out.kind # "ok"
                  THEN [res |-> out, bytes |-> bytes]
                  ELSE [res |-> Ok(rid), bytes |-> out.val]))))

\* insert, lines 118-136: the slot is added to the header of the scratch
\* buffer.  scan is what the scan left: [res, page, page_found, page_num].
place_record(bytes, attributes, insert_vals, required, scan, checked) ==
    LET page_num == IF scan.page_found THEN scan.page_num ELSE num_pages(bytes)
        fail == [res |-> Panic, bytes |-> bytes]
    IN  With(IF scan.page_found THEN scan.page ELSE init_rb_page(scan.page), LAMBDA page :
        With(get_slot_directory_hdr(page), LAMBDA h :
        IF h.kind # "ok" THEN fail
        \* data_start_offset - required_space as u32: an underflow panics with
        \* overflow checks and wraps without, and then (as for an offset of
        \* 2^31 or more) the slice at line 144 is out of range.
        ELSE IF h.val.data_start_offset < required THEN fail
        ELSE LET slot_dir_hdr == h.val
                 rid == RecordId(page_num, Len(slot_dir_hdr.slots_vec))
                 starting_offset == slot_dir_hdr.data_start_offset - required
             IN  With(write_slot_directory_hdr(page,
                          [data_start_offset |-> starting_offset,
                           slots_vec |-> Append(slot_dir_hdr.slots_vec,
                                           [length |-> required,
                                            offset |-> starting_offset])]), LAMBDA w :
                 IF w.kind # "ok" THEN fail
                 ELSE write_back(bytes, attributes, insert_vals, required,
                                 scan.page_found, rid, starting_offset, w.val, checked))))

\* An insert that initialises page 0 before it validates insert_vals.
insert_init_first(bytes, attributes, insert_vals, checked) ==
    With(required_space(attributes, insert_vals), LAMBDA rs :
    IF rs.kind # "ok"
    THEN [res |-> Panic, bytes |-> write_page(bytes, 0, init_rb_page(PageNew)).val]
    ELSE With(scan_pages(bytes, rs.val, 0,
                  [res |-> Ok(0), page |-> PageNew,
                   page_found |-> FALSE, page_num |-> 0], checked), LAMBDA scan :
         IF scan.res.kind # "ok" THEN [res |-> scan.res, bytes |-> bytes]
         ELSE place_record(bytes, attributes, insert_vals, rs.val, scan, checked)))

\* RecordBasedFileMgr::insert: [res, bytes], where res is the RecordId (or
\* the failure) and bytes the content of the file afterwards.
insert(bytes, attributes, insert_vals, checked) ==
    With(required_space(attributes, insert_vals), LAMBDA rs :
    IF rs.kind # "ok" THEN [res |-> Panic, bytes |-> bytes]
    ELSE With(scan_pages(bytes, rs.val, 0,
                  [res |-> Ok(0), page |-> PageNew,
                   page_found |-> FALSE, page_num |-> 0], checked), LAMBDA scan :
         IF scan.res.kind # "ok" THEN [res |-> scan.res, bytes |-> bytes]
         ELSE place_record(bytes, attributes, insert_vals, rs.val, scan, checked)))

\* RecordBasedFileMgr::read.  seen is the set of RecordIds the recursion
\* has been called with: read is a function of the file and the RecordId,
\* so a RecordId met twice is a recursion that never ends.
RECURSIVE read_from(_, _, _, _, _)
read_from(bytes, attributes, rid, checked, seen) ==
    IF rid \in seen THEN Diverge
    ELSE With(read_page(bytes, AsUsize(rid.page_num)), LAMBDA r :
         IF r.kind # "ok" THEN r
         ELSE With(get_slot_directory_hdr(r.val), LAMBDA h :
         IF h.kind # "ok" THEN Panic
         ELSE IF Len(h.val.slots_vec) <= AsUsize(rid.slot_num) THEN ErrMsg("InvalidInput", <<"Slot does not exist">>)
         ELSE LET slot == h.val.slots_vec[rid.slot_num + 1]
                  s == status(slot, checked)
              IN  IF s.s = "Dead" THEN ErrMsg("InvalidData", <<"Record deleted">>)
                  ELSE IF s.s = "Panic" THEN Panic
                  ELSE IF s.s = "Moved"
                  THEN With(RecordId(s.page_num, s.slot_num), LAMBDA target :
                       With(seen \cup {rid}, LAMBDA seen2 :
                       read_from(bytes, attributes, target, checked, seen2)))
                  \* the slice of line 176 is out of range
                  ELSE IF slot.length < 0
                          \/ slot.offset > Len(r.val)
                          \/ slot.length > Len(r.val) - slot.offset
                  THEN Panic
                  ELSE With(Slice(r.val, slot.offset, slot.length), LAMBDA buf :
                       read_record_from_buf(attributes, buf, checked))))

read(bytes, attributes, rid, checked) == read_from(bytes, attributes, rid, checked, {})

(***************************************************************************)
(* The schemas, records and pages the model draws its inputs from.         *)
(***************************************************************************)
\* The schema of rbfm_insert_test, its Varchar bound scaled to MaxVarchar.
TestSchema ==
    << [name |-> "FirstName", attribute_type |-> VarcharType(MaxVarchar)],
       [name |-> "Age", attribute_type |-> IntType],
       [name |-> "PowerLevel", attribute_type |-> RealType] >>

\* rbfm_create_test creates its file with no attribute.
Schemas == { << >>, TestSchema }

\* "Cow"
Cow == << 67, 111, 119 >>

\* "é", one character of two bytes
EAcute == << 195, 169 >>

\* 8999.999
Real8999 == RealVal(0, 1036, 1, 9699295, 3892314)

\* Records whose values match TestSchema.
ValidRecords ==
    { EmptyRecord,
      [FirstName |-> VarcharVal(Cow), Age |-> IntVal(28), PowerLevel |-> Real8999],
      [Age |-> IntVal(-1)],
      [FirstName |-> VarcharVal(EAcute)] }

\* Records TestSchema rejects: an Int for the Real attribute, and a Varchar
\* one byte longer than its bound.
MismatchRecords ==
    { [PowerLevel |-> IntVal(1)],
      [FirstName |-> VarcharVal([k \in 1..(MaxVarchar + 1) |-> 97])] }

\* A record with a key that is no attribute of the schema.
ForeignRecords == { [Age |-> IntVal(28), Bogus |-> IntVal(7)] }

Records == ValidRecords \cup MismatchRecords \cup ForeignRecords

\* The RecordIds read is called with.
Rids == {RecordId(0, 0), RecordId(0, 1), RecordId(1, 0), RecordId(2, 0)}

\* The pages of pf_write_test.
Pages == {PageNew, PageFilled(128), PageFilled(64)}

(***************************************************************************)
(* The state.                                                              *)
(*   checked     whether the build checks overflow and debug assertions    *)
(*   file        the file at the path: [exists, bytes]                     *)
(*   handle      whether the program holds an open handle on it            *)
(*   attributes  the schema the RecordBasedFileMgr was given               *)
(*   op          the last call and what it returned                        *)
(*   hist        the successful inserts so far: <<[rid, insert_vals]>>     *)
(*   written     per page index, the page last appended or written there   *)
(*   ninserts    the number of successful inserts                          *)
(*   appends     the number of successful calls of append_page             *)
(*   file_page_size  the PAGE_SIZE the file was created with (0: no file)  *)
(***************************************************************************)
VARIABLES checked, file, handle, attributes, op, hist, written, ninserts, appends, file_page_size

vars == << checked, file, handle, attributes, op, hist, written, ninserts, appends, file_page_size >>

NoArg == << >>

Call(name, arg, res) == [name |-> name, arg |-> arg, res |-> res]

\* A call that panics or never returns ends the process, and its handle.
Survives(res) == res.kind \in {"ok", "err"}

Init ==
    /\ checked \in BOOLEAN
    /\ file = [exists |-> FALSE, bytes |-> << >>]
    /\ handle = FALSE
    /\ attributes = << >>
    /\ op = Call("none", NoArg, Ok(NoArg))
    /\ hist = << >>
    /\ written = << >>
    /\ ninserts = 0
    /\ appends = 0
    /\ file_page_size = 0

(***************************************************************************)
(* PagedFile::create and ::open, on the file at the path.                  *)
(***************************************************************************)
\* A PagedFile::create that opens with create(true).truncate(true): an
\* existing file is replaced by a fresh header.
pf_create_truncate(f, page_size) ==
    [res |-> Ok(NoArg), file |-> [exists |-> TRUE, bytes |-> FileHeader(page_size)]]

\* PagedFile::create: create_new fails on an existing path; the header is
\* written otherwise.  [res, file]
pf_create(f, page_size) ==
    IF f.exists
    THEN [res |-> Err("AlreadyExists"), file |-> f]
    ELSE [res |-> Ok(NoArg), file |-> [exists |-> TRUE, bytes |-> FileHeader(page_size)]]

\* The decimal digits format!("{}", n) prints (a header of 2^31 or more,
\* which no create of the model writes, is not printed digit by digit).
RECURSIVE Digits(_)
Digits(n) ==
    IF n < 0 THEN <<"2^31 or more">>
    ELSE IF n < 10 THEN <<n>>
    ELSE Digits(n \div 10) \o <<n % 10>>

\* format!("Page size mismatch. Header: {}, Expected: {}", hdr_page_size, PAGE_SIZE)
MismatchMsg(hdr_page_size, expected) ==
    <<"Page size mismatch. Header: ">> \o Digits(hdr_page_size)
        \o <<", Expected: ">> \o Digits(expected)

\* A PagedFile::open whose message prints the expected page size twice.
pf_open_expected_twice(f, expected) ==
    IF ~f.exists THEN Err("NotFound")
    ELSE IF Len(f.bytes) < HEADER_LEN THEN Err("UnexpectedEof")
    ELSE IF u64_from_le_bytes(Slice(f.bytes, 0, HEADER_LEN)) # expected
    THEN ErrMsg("Other", MismatchMsg(expected, expected))
    ELSE Ok(NoArg)

\* PagedFile::open for a handle of page size expected: the result.
pf_open(f, expected) ==
    IF ~f.exists THEN Err("NotFound")
    ELSE IF Len(f.bytes) < HEADER_LEN THEN Err("UnexpectedEof")
    ELSE With(u64_from_le_bytes(Slice(f.bytes, 0, HEADER_LEN)), LAMBDA hdr_page_size :
         IF hdr_page_size # expected
         THEN ErrMsg("Other", MismatchMsg(hdr_page_size, expected))
         ELSE Ok(NoArg))

\* RecordBasedFileMgr::create: [res, file]
create(f) ==
    LET c == pf_create(f, PAGE_SIZE)
    IN  IF c.res.kind # "ok" THEN c
        ELSE LET a == append_page(c.file.bytes, init_rb_page(PageNew))
             IN  [res |-> Ok(NoArg), file |-> [exists |-> TRUE, bytes |-> a.val]]

(***************************************************************************)
(* The actions of a program that uses a RecordBasedFileMgr.                *)
(***************************************************************************)
Create(attrs) ==
    /\ ~handle
    /\ \E c \in {create(file)} :
           /\ file' = c.file
           /\ handle' = (c.res.kind = "ok")
           /\ attributes' = IF c.res.kind = "ok" THEN attrs ELSE attributes
           /\ hist' = IF c.res.kind = "ok" THEN << >> ELSE hist
           /\ op' = Call("create", attrs, c.res)
           /\ appends' = IF c.res.kind = "ok" THEN 1 ELSE appends
           /\ file_page_size' = IF c.res.kind = "ok" THEN PAGE_SIZE ELSE file_page_size
    /\ UNCHANGED << checked, written, ninserts >>

\* RecordBasedFileMgr::open, with the schema the file was created with.
Open ==
    /\ ~handle
    /\ LET r == pf_open(file, PAGE_SIZE)
       IN  /\ handle' = (r.kind = "ok")
           /\ op' = Call("open", NoArg, r)
    /\ UNCHANGED << checked, file, attributes, hist, written, ninserts, appends, file_page_size >>

\* The handle is dropped.
Close ==
    /\ handle
    /\ handle' = FALSE
    /\ op' = Call("close", NoArg, Ok(NoArg))
    /\ UNCHANGED << checked, file, attributes, hist, written, ninserts, appends, file_page_size >>

Insert(insert_vals) ==
    /\ handle
    /\ ninserts < MaxInserts
    /\ \E r \in {insert(file.bytes, attributes, insert_vals, checked)} :
           /\ file' = [file EXCEPT !.bytes = r.bytes]
           /\ handle' = Survives(r.res)
           /\ op' = Call("insert", insert_vals, r.res)
           /\ hist' = IF r.res.kind = "ok"
                      THEN Append(hist, [rid |-> r.res.val, insert_vals |-> insert_vals])
                      ELSE hist
           /\ ninserts' = IF r.res.kind = "ok" THEN ninserts + 1 ELSE ninserts
           /\ appends' = IF r.res.kind = "ok" /\ r.res.val.page_num = num_pages(file.bytes)
                         THEN appends + 1 ELSE appends
    /\ UNCHANGED << checked, attributes, written, file_page_size >>

Read(rid) ==
    /\ handle
    /\ \E r \in {read(file.bytes, attributes, rid, checked)} :
           /\ handle' = Survives(r)
           /\ op' = Call("read", rid, r)
    /\ UNCHANGED << checked, file, attributes, hist, written, ninserts, appends, file_page_size >>

Next ==
    \/ \E attrs \in Schemas : Create(attrs)
    \/ Open
    \/ Close
    \/ \E insert_vals \in Records : Insert(insert_vals)
    \/ \E rid \in Rids : Read(rid)

Spec == Init /\ [][Next]_vars

(***************************************************************************)
(* The actions of a program that uses a PagedFile directly, as the tests   *)
(* of paged_file.rs do.                                                    *)
(***************************************************************************)
\* The page indices read_page and write_page are called with.
PageNums == 0..(MaxPages + 1)

\* PagedFile::<P>::create
PfCreate(P) ==
    /\ ~handle
    /\ \E c \in {pf_create(file, P)} :
           /\ file' = c.file
           /\ handle' = (c.res.kind = "ok")
           /\ written' = IF c.res.kind = "ok" THEN << >> ELSE written
           /\ file_page_size' = IF c.res.kind = "ok" THEN P ELSE file_page_size
           /\ op' = Call("pf_create", [page_size |-> P], c.res)
    /\ UNCHANGED << checked, attributes, hist, ninserts, appends >>

\* PagedFile::<P>::open
PfOpen(P) ==
    /\ ~handle
    /\ \E r \in {pf_open(file, P)} :
           /\ handle' = (r.kind = "ok")
           /\ op' = Call("pf_open", [page_size |-> P], r)
    /\ UNCHANGED << checked, file, attributes, hist, written, ninserts, appends, file_page_size >>

PfDrop ==
    /\ handle
    /\ handle' = FALSE
    /\ op' = Call("drop", NoArg, Ok(NoArg))
    /\ UNCHANGED << checked, file, attributes, hist, written, ninserts, appends, file_page_size >>

AppendPage(page) ==
    /\ handle
    /\ num_pages(file.bytes) < MaxPages
    /\ \E r \in {append_page(file.bytes, page)} :
           /\ file' = [exists |-> TRUE, bytes |-> r.val]
           /\ written' = Append(written, page)
           /\ op' = Call("append_page", [page |-> page], [r EXCEPT !.val = NoArg])
           /\ appends' = appends + 1
    /\ UNCHANGED << checked, handle, attributes, hist, ninserts, file_page_size >>

\* (The guard keeps the file within MaxPages pages.)
WritePage(pagenum, page) ==
    /\ handle
    /\ pagenum = num_pages(file.bytes) => num_pages(file.bytes) < MaxPages
    /\ \E r \in {write_page(file.bytes, pagenum, page)} :
           /\ file' = IF r.kind = "ok" THEN [exists |-> TRUE, bytes |-> r.val] ELSE file
           /\ written' = IF r.kind = "ok"
                         THEN [k \in 1..(IF pagenum < Len(written)
                                         THEN Len(written) ELSE pagenum + 1) |->
                                  IF k = pagenum + 1 THEN page ELSE written[k]]
                         ELSE written
           /\ op' = Call("write_page", [pagenum |-> pagenum, page |-> page],
                         [r EXCEPT !.val = NoArg])
    /\ UNCHANGED << checked, handle, attributes, hist, ninserts, appends, file_page_size >>

ReadPage(pagenum) ==
    /\ handle
    /\ op' = Call("read_page", [pagenum |-> pagenum], read_page(file.bytes, pagenum))
    /\ UNCHANGED << checked, file, handle, attributes, hist, written, ninserts, appends, file_page_size >>

NextPF ==
    \/ PfCreate(PAGE_SIZE)
    \/ PfOpen(PAGE_SIZE)
    \/ PfDrop
    \/ \E page \in Pages : AppendPage(page)
    \/ \E pagenum \in PageNums, page \in Pages : WritePage(pagenum, page)
    \/ \E pagenum \in PageNums : ReadPage(pagenum)

SpecPF == Init /\ [][NextPF]_vars

(***************************************************************************)
(* The actions of a program that creates a PagedFile of one page size and  *)
(* opens it with another, as pf_hdr_fail_test does.                        *)
(***************************************************************************)
\* The page sizes of the tests (16, 5000), of RecordBasedFileMgr (8192) and
\* of the model, and their neighbours.
PageSizes == {1, 16, PAGE_SIZE, PAGE_SIZE + 1, 4096, 5000, 8192}

NextHdr ==
    \/ \E P \in PageSizes : PfCreate(P)
    \/ \E P \in PageSizes : PfOpen(P)
    \/ PfDrop

SpecHdr == Init /\ [][NextHdr]_vars

(***************************************************************************)
(* Record files with arbitrary slot directories: files a program did not   *)
(* write with insert (the format provides for deleted and moved records),  *)
(* opened and read.                                                        *)
(***************************************************************************)
\* The record every page of these files stores, at the end of the page.
RawRecord == [Age |-> IntVal(-1)]

RawRecordLen == record_size(TestSchema, RawRecord).val

ValidSlot == [length |-> RawRecordLen, offset |-> PAGE_SIZE - RawRecordLen]

DeadSlot == [length |-> 0, offset |-> 0]

\* The entry of a record moved to {page_num, slot_num}
MovedSlot(page_num, slot_num) == [length |-> page_num, offset |-> -slot_num]

\* A page with the slot directory slots and RawRecord in its last bytes.
RawPage(slots) ==
    With(write_record_into_buf(TestSchema, [k \in 1..RawRecordLen |-> 0], RawRecord).buf,
         LAMBDA rec :
    write_slot_directory_hdr(WriteAt(PageNew, PAGE_SIZE - RawRecordLen, rec),
        [data_start_offset |-> PAGE_SIZE - RawRecordLen, slots_vec |-> slots]).val)

\* Slot 0 of page 0: every status, targets on both pages, a target slot and
\* a target page that do not exist, and the offset i32::MIN.
RawSlots0 ==
    { ValidSlot, DeadSlot, MovedSlot(0, 1), MovedSlot(0, 2), MovedSlot(1, 1),
      MovedSlot(1, 2), MovedSlot(0, 3), MovedSlot(2, 1), [length |-> 0, offset |-> I32_MIN] }

\* Slot 1 of page 0 (MovedSlot(0, 1) is its own target).
RawSlots1 == { ValidSlot, DeadSlot, MovedSlot(0, 1), MovedSlot(0, 2), MovedSlot(1, 1) }

\* Slot 2 of page 0.
RawSlots2 == { ValidSlot, DeadSlot, MovedSlot(0, 1) }

\* Slots 1 and 2 of page 1; its slot 0 is Valid.
RawSlots3 == { ValidSlot, DeadSlot, MovedSlot(1, 2), MovedSlot(0, 2) }

RawSlots4 == { ValidSlot, DeadSlot }

RawFiles ==
    { [exists |-> TRUE,
       bytes |-> FileHeader(PAGE_SIZE) \o RawPage(<<a, b, c>>) \o RawPage(<<ValidSlot, d, e>>)] :
         a \in RawSlots0, b \in RawSlots1, c \in RawSlots2, d \in RawSlots3, e \in RawSlots4 }

RawRids ==
    { RecordId(0, 0), RecordId(0, 1), RecordId(0, 2), RecordId(1, 1), RecordId(1, 2),
      RecordId(0, 3) }

InitRaw ==
    /\ checked \in BOOLEAN
    /\ file \in RawFiles
    /\ handle = FALSE
    /\ attributes = TestSchema
    /\ op = Call("none", NoArg, Ok(NoArg))
    /\ hist = << >>
    /\ written = << >>
    /\ ninserts = 0
    /\ appends = 0
    /\ file_page_size = PAGE_SIZE

NextRaw ==
    \/ Open
    \/ Close
    \/ \E rid \in RawRids : Read(rid)

SpecRaw == InitRaw /\ [][NextRaw]_vars

(***************************************************************************)
(* One page filled past its header: a program that creates a record file   *)
(* and inserts short records, more of them than Spec does, and reads slots *)
(* of page 0.                                                              *)
(***************************************************************************)
MaxFill == 5

FillRecords == { EmptyRecord, [FirstName |-> VarcharVal(EAcute)] }

\* The first slot, a slot no page of this program has, the largest slot
\* number.
FillRids == { RecordId(0, 0), RecordId(0, MaxFill), RecordId(0, I32_MAX) }

FillInsert(insert_vals) ==
    /\ handle
    /\ ninserts < MaxFill
    /\ \E r \in {insert(file.bytes, attributes, insert_vals, checked)} :
           /\ file' = [file EXCEPT !.bytes = r.bytes]
           /\ handle' = Survives(r.res)
           /\ op' = Call("insert", insert_vals, r.res)
           /\ hist' = IF r.res.kind = "ok"
                      THEN Append(hist, [rid |-> r.res.val, insert_vals |-> insert_vals])
                      ELSE hist
           /\ ninserts' = IF r.res.kind = "ok" THEN ninserts + 1 ELSE ninserts
           /\ appends' = IF r.res.kind = "ok" /\ r.res.val.page_num = num_pages(file.bytes)
                         THEN appends + 1 ELSE appends
    /\ UNCHANGED << checked, attributes, written, file_page_size >>

NextFill ==
    \/ Create(TestSchema)
    \/ Open
    \/ \E insert_vals \in FillRecords : FillInsert(insert_vals)
    \/ \E rid \in FillRids : Read(rid)

SpecFill == Init /\ [][NextFill]_vars

(***************************************************************************)
(* The record codec on its own: a mapping is encoded with                  *)
(* write_record_into_buf into a buffer of the size insert reserves for it  *)
(* (or of the record's size), and the buffer is decoded with               *)
(* read_record_from_buf.                                                   *)
(***************************************************************************)
CodecNames == << "A1", "A2", "A3", "A4", "A5", "A6", "A7", "A8", "A9" >>

\* A schema of n Int attributes.
WideSchema(n) == [i \in 1..n |-> [name |-> CodecNames[i], attribute_type |-> IntType]]

\* No attribute, the test schema, and schemas whose null bitmap just fills
\* one byte and just needs two.
CodecSchemas == { << >>, TestSchema, WideSchema(8), WideSchema(9) }

\* The mapping of the names in S to the Int v.
IntsOf(S, v) == [k \in S |-> IntVal(v)]

CodecRecords ==
    Records
      \cup { [FirstName |-> VarcharVal(<< >>)],
             [FirstName |-> VarcharVal(Cow), PowerLevel |-> Real8999],
             [FirstName |-> VarcharVal(EAcute), Bogus |-> IntVal(7)],
             IntsOf({"A1"}, 1), IntsOf({"A9"}, -1), IntsOf({"A8", "A9"}, 258),
             IntsOf({CodecNames[i] : i \in 1..8}, 7),
             IntsOf({CodecNames[i] : i \in 1..9}, -2) }

\* The bytes a buffer holds before the record is written into it.
FillBytes == { 0, 255 }

\* The size of the buffer beyond the record: none, and the 8 bytes insert
\* reserves with it.
Pads == { 0, RECORD_ENTRY_SIZE }

\* The attributes (by position) of the schema that insert_vals has a value for.
Present(attrs, insert_vals) == { i \in DOMAIN attrs : attrs[i].name \in DOMAIN insert_vals }

\* 4 per Int, 8 per Real, the byte length per Varchar.
PayloadSize(val) == IF val.t = "Int" THEN 4 ELSE IF val.t = "Real" THEN 8 ELSE Len(val.v)

RECURSIVE PayloadSum(_, _, _)
PayloadSum(attrs, insert_vals, i) ==
    IF i > Len(attrs) THEN 0
    ELSE (IF attrs[i].name \in DOMAIN insert_vals
          THEN PayloadSize(insert_vals[attrs[i].name]) ELSE 0)
         + PayloadSum(attrs, insert_vals, i + 1)

\* 2 + ceil(attr_count / 8) + 2 * present_count + the payload sizes.
RecordSizeFormula(attrs, insert_vals) ==
    2 + ((Len(attrs) + 7) \div 8) + 2 * Cardinality(Present(attrs, insert_vals))
      + PayloadSum(attrs, insert_vals, 1)

InitCodec ==
    /\ checked \in BOOLEAN
    /\ file = [exists |-> FALSE, bytes |-> << >>]
    /\ handle = FALSE
    /\ attributes \in CodecSchemas
    /\ op = Call("none", NoArg, Ok(NoArg))
    /\ hist = << >>
    /\ written = << >>
    /\ ninserts = 0
    /\ appends = 0
    /\ file_page_size = 0

\* write_record_into_buf(buf, insert_vals) on a buffer of pad bytes more
\* than the record, filled with fill.
Encode(insert_vals, pad, fill) ==
    /\ \E w \in {write_record_into_buf(attributes,
                     [k \in 1..(RecordSizeFormula(attributes, insert_vals) + pad) |-> fill],
                     insert_vals)} :
           /\ op' = Call("write_record_into_buf", insert_vals, w.res)
           /\ written' = w.buf
    /\ UNCHANGED << checked, file, handle, attributes, hist, ninserts, appends, file_page_size >>

\* read_record_from_buf on the buffer just written.
Decode ==
    /\ op.name = "write_record_into_buf"
    /\ op.res.kind = "ok"
    /\ op' = Call("read_record_from_buf", op.arg, read_record_from_buf(attributes, written, checked))
    /\ UNCHANGED << checked, file, handle, attributes, hist, written, ninserts, appends, file_page_size >>

NextCodec ==
    \/ \E insert_vals \in CodecRecords : \E pad \in Pads : \E fill \in FillBytes :
          Encode(insert_vals, pad, fill)
    \/ Decode

SpecCodec == InitCodec /\ [][NextCodec]_vars

(***************************************************************************)
(* The vocabulary of the properties.                                       *)
(***************************************************************************)
AttributeNames(attrs) == {attrs[i].name : i \in DOMAIN attrs}

\* insert_vals is consistent with the schema: its keys are attributes, and
\* every value has the type of its attribute, a Varchar within its bound.
Consistent(attrs, insert_vals) ==
    /\ DOMAIN insert_vals \subseteq AttributeNames(attrs)
    /\ record_size(attrs, insert_vals).kind = "ok"

\* Some present attribute's value does not match its attribute's type.
Mismatched(attrs, insert_vals) == record_size(attrs, insert_vals).kind # "ok"

\* Page i of the file, and its slot directory header.
PageAt(bytes, i) == Slice(bytes, HEADER_LEN + i * PAGE_SIZE, PAGE_SIZE)

HdrAt(bytes, i) == get_slot_directory_hdr(PageAt(bytes, i))

\* The free space of page i as an integer, data_start_offset minus the size
\* of the header (negative when they overlap); a page one past the end
\* counts as a freshly initialised one.
FreeBefore(bytes, i) ==
    IF i >= num_pages(bytes) THEN PAGE_SIZE - HDR_SIZE
    ELSE With(HdrAt(bytes, i), LAMBDA h :
         IF h.kind # "ok" THEN -1
         ELSE h.val.data_start_offset - serialized_size(h.val))

\* The number of slots of page i; none on a page one past the end.
SlotsBefore(bytes, i) ==
    IF i >= num_pages(bytes) THEN 0
    ELSE With(HdrAt(bytes, i), LAMBDA h :
         IF h.kind # "ok" THEN -1 ELSE Len(h.val.slots_vec))

InsertedOk(o) == o.name = "insert" /\ o.res.kind = "ok"

(***************************************************************************)
(* The properties.                                                         *)
(***************************************************************************)
\* C1: record round-trip.  After an insert of a mapping consistent with the
\* schema has returned a RecordId, read of that RecordId returns a mapping
\* equal to the one inserted.
C1_RoundTrip ==
    (InsertedOk(op) /\ Consistent(attributes, op.arg))
        => read(file.bytes, attributes, op.res.val, checked) = Ok(op.arg)

\* C2: RecordId stability.  A record that read returns for its RecordId
\* before a successful insert is still what read returns for that RecordId
\* after it.
C2_Stable ==
    [][InsertedOk(op')
         => \A k \in DOMAIN hist :
               read(file.bytes, attributes, hist[k].rid, checked) = Ok(hist[k].insert_vals)
                 => read(file'.bytes, attributes, hist[k].rid, checked)
                        = Ok(hist[k].insert_vals)]_vars

\* C3: header/data non-overlap.  On every page of a record file the header
\* deserializes and data_start_offset is at least the serialized size of
\* the header, 12 + 8 * (number of slots).
C3_NonOverlap ==
    file.exists
        => \A i \in 0..(num_pages(file.bytes) - 1) :
               /\ HdrAt(file.bytes, i).kind = "ok"
               /\ serialized_size(HdrAt(file.bytes, i).val)
                     = 12 + 8 * Len(HdrAt(file.bytes, i).val.slots_vec)
               /\ HdrAt(file.bytes, i).val.data_start_offset
                     >= serialized_size(HdrAt(file.bytes, i).val)

\* C4: placement.  The page a successful insert returns in its RecordId had,
\* immediately before the insert, free space of at least the required
\* space of the record (PAGE_SIZE - 12 for an appended page).
C4_Placement ==
    [][InsertedOk(op')
         => FreeBefore(file.bytes, op'.res.val.page_num)
                >= required_space(attributes, op'.arg).val]_vars

\* C5: slot numbering.  The slot_num of the RecordId a successful insert
\* returns is the number of slots page rid.page_num held immediately
\* before the insert.
C5_SlotNum ==
    [][InsertedOk(op')
         => op'.res.val.slot_num = SlotsBefore(file.bytes, op'.res.val.page_num)]_vars

\* C6: type-mismatch rejection.  An insert of a mapping with a value whose
\* type differs from its attribute's, or a Varchar longer than its bound,
\* returns the invalid-input error to its caller.
C6_TypedError ==
    (op.name = "insert" /\ Mismatched(attributes, op.arg))
        => op.res = Err("InvalidInput")

\* C7: a rejected insert mutates nothing.  An insert of a mapping with a
\* type mismatch or an over-long Varchar leaves the number of pages and
\* every byte of the file as they were.
C7_RejectedInsertFrame ==
    [][(op'.name = "insert" /\ Mismatched(attributes, op'.arg))
         => (op'.res.kind # "ok" /\ file' = file)]_vars

\* A mismatched insert has been rejected on a file that holds a record.
C7_Witness ==
    /\ op.name = "insert"
    /\ op.arg \in MismatchRecords
    /\ Mismatched(attributes, op.arg)
    /\ op.res.kind # "ok"
    /\ Len(hist) >= 1
    /\ PageAt(file.bytes, 0) # init_rb_page(PageNew)

\* C8: out-of-range write.  write_page(n, p) with n >= num_pages() fails
\* and leaves the file as it was.
C8_WriteOutOfRange ==
    [][(op'.name = "write_page" /\ op'.arg.pagenum >= num_pages(file.bytes))
         => (op'.res.kind = "err" /\ file' = file)]_vars

\* C9: out-of-range read.  read_page(n) with n >= num_pages() fails with
\* the not-found error.
C9_ReadOutOfRange ==
    (op.name = "read_page" /\ op.arg.pagenum >= num_pages(file.bytes))
        => op.res = Err("NotFound")

\* C10: page read-your-writes and persistence.  The file holds as many
\* pages as were appended, and read_page(i) returns the page last appended
\* at or written to index i, whether or not the handle has been dropped
\* and the file reopened since.
C10_ReadYourWrites ==
    file.exists
        => /\ num_pages(file.bytes) = Len(written)
           /\ \A i \in 0..(Len(written) - 1) :
                  read_page(file.bytes, i) = Ok(written[i + 1])

\* The file has been reopened after pages that differ were appended or
\* written, and page 0 is not an empty page.
C10_Witness ==
    /\ op.name = "pf_open"
    /\ op.res.kind = "ok"
    /\ Len(written) >= 2
    /\ written[1] # written[2]
    /\ written[1] = PageFilled(64)
    /\ read_page(file.bytes, 0) = Ok(written[1])

\* C11: page count.  num_pages() is 0 after PagedFile::create; a successful
\* append_page raises it by one and changes no existing page; read_page,
\* and write_page within range, leave it alone; and it always equals the
\* number of successful append_page calls.
C11_PageCount ==
    [][/\ (op'.name = "pf_create" /\ op'.res.kind = "ok")
             => num_pages(file'.bytes) = 0
       /\ (op'.name = "append_page" /\ op'.res.kind = "ok")
             => /\ num_pages(file'.bytes) = num_pages(file.bytes) + 1
                /\ \A i \in 0..(num_pages(file.bytes) - 1) :
                       PageAt(file'.bytes, i) = PageAt(file.bytes, i)
       /\ (op'.name = "read_page"
             \/ (op'.name = "write_page" /\ op'.arg.pagenum < num_pages(file.bytes)))
             => num_pages(file'.bytes) = num_pages(file.bytes)
       /\ file'.exists => num_pages(file'.bytes) = appends']_vars

\* C12: header round-trip.  Opening a file with the page size it was created
\* with succeeds; opening it with any other page size fails, opens no
\* handle, and the message of the error names the stored page size and the
\* expected one.
C12_HeaderRoundTrip ==
    (op.name = "pf_open" /\ file.exists)
        => IF op.arg.page_size = file_page_size
           THEN op.res = Ok(NoArg) /\ handle
           ELSE /\ op.res.kind = "err"
                /\ op.res.msg = <<"Page size mismatch. Header: ">> \o Digits(file_page_size)
                                   \o <<", Expected: ">> \o Digits(op.arg.page_size)
                /\ ~handle

\* A file created with the page size of the model has been opened with the
\* page size 5000 of pf_hdr_fail_test.
C12_Witness ==
    /\ op.name = "pf_open"
    /\ file_page_size = PAGE_SIZE
    /\ op.arg.page_size = 5000
    /\ op.res.kind = "err"
    /\ op.res.msg = <<"Page size mismatch. Header: ">> \o Digits(PAGE_SIZE)
                       \o <<", Expected: ", 5, 0, 0, 0>>

\* C13: no silent overwrite.  On a path that already exists PagedFile::create
\* and RecordBasedFileMgr::create fail, and the file is left as it was: its
\* header, its pages and the records in them.
C13_NoOverwrite ==
    /\ [](file.exists
            => /\ pf_create(file, PAGE_SIZE).res = Err("AlreadyExists")
               /\ pf_create(file, PAGE_SIZE).file = file
               /\ create(file).res = Err("AlreadyExists")
               /\ create(file).file = file)
    /\ [][(op'.name = "create" /\ file.exists)
            => (op'.res.kind = "err" /\ file' = file /\ ~handle')]_vars

\* RecordBasedFileMgr::create has failed on a file that holds a record.
C13_Witness ==
    /\ op.name = "create"
    /\ op.res = Err("AlreadyExists")
    /\ Len(hist) >= 1
    /\ read(file.bytes, attributes, hist[1].rid, checked) = Ok(hist[1].insert_vals)

\* C14: initial state.  From a successful RecordBasedFileMgr::create until
\* the first successful insert, across drops and opens, the file holds
\* exactly one page, whose slot directory header is
\* {data_start_offset: PAGE_SIZE, slots: []}, with free space PAGE_SIZE - 12.
C14_InitialState ==
    (file.exists /\ ninserts = 0)
        => /\ num_pages(file.bytes) = 1
           /\ HdrAt(file.bytes, 0)
                 = Ok([data_start_offset |-> PAGE_SIZE, slots_vec |-> << >>])
           /\ free_space(HdrAt(file.bytes, 0).val, checked) = Ok(PAGE_SIZE - 12)
           /\ op.name = "open" => (op.res = Ok(NoArg) /\ handle)

\* The file has been created, dropped and opened again before any insert.
C14_Witness ==
    /\ op.name = "open"
    /\ op.res.kind = "ok"
    /\ handle
    /\ ninserts = 0
    /\ num_pages(file.bytes) = 1

\* Page rid.page_num exists, its header deserializes and has a slot
\* rid.slot_num; and that slot.
HasSlot(bytes, rid) ==
    /\ rid.page_num >= 0
    /\ rid.page_num < num_pages(bytes)
    /\ rid.slot_num >= 0
    /\ rid.slot_num < SlotsBefore(bytes, rid.page_num)

SlotAt(bytes, rid) == HdrAt(bytes, rid.page_num).val.slots_vec[rid.slot_num + 1]

\* The target of a Moved entry: {page_num: length, slot_num: -offset}, the
\* u32 2^31 carried as i32::MIN.
MovedTarget(slot) ==
    RecordId(slot.length, IF slot.offset = I32_MIN THEN I32_MIN ELSE -slot.offset)

\* Moved hops a chain is followed for.
MaxHops == 4

\* Where the chain of Moved hops from rid ends within k hops: in a Valid
\* slot, in a Dead slot, or in neither.
RECURSIVE ChainEnd(_, _, _)
ChainEnd(bytes, rid, k) ==
    IF ~HasSlot(bytes, rid) THEN [s |-> "none"]
    ELSE With(SlotAt(bytes, rid), LAMBDA slot :
         IF slot.offset < 0
         THEN IF k = 0 THEN [s |-> "none"] ELSE ChainEnd(bytes, MovedTarget(slot), k - 1)
         ELSE IF slot.length = 0 /\ slot.offset = 0 THEN [s |-> "Dead"]
         ELSE [s |-> "Valid", rid |-> rid, slot |-> slot])

\* C15: forwarding resolution.  read(rid) on a slot with offset < 0 returns
\* what read(target) returns, target = {page_num: length, slot_num: -offset};
\* so a chain of Moved hops that ends in a Valid slot returns the record
\* decoded at that slot, and one that ends in a Dead slot returns the
\* record-deleted error.
C15_Forwarding ==
    (op.name = "read" /\ HasSlot(file.bytes, op.arg) /\ SlotAt(file.bytes, op.arg).offset < 0)
        => /\ op.res = read(file.bytes, attributes, MovedTarget(SlotAt(file.bytes, op.arg)),
                            checked)
           /\ \E e \in {ChainEnd(file.bytes, op.arg, MaxHops)} :
                 /\ e.s = "Dead" => op.res = ErrMsg("InvalidData", <<"Record deleted">>)
                 /\ e.s = "Valid"
                       => op.res = read_record_from_buf(attributes,
                                       Slice(PageAt(file.bytes, e.rid.page_num),
                                             e.slot.offset, e.slot.length), checked)

\* C16: dead slot.  read(rid) on an existing slot with length 0 and offset 0
\* fails with the invalid-data error "Record deleted".
C16_DeadSlot ==
    (op.name = "read" /\ HasSlot(file.bytes, op.arg) /\ SlotAt(file.bytes, op.arg) = DeadSlot)
        => op.res = ErrMsg("InvalidData", <<"Record deleted">>)

\* A Dead slot has been read, on a page that also holds a Valid slot.
C16_Witness ==
    /\ op.name = "read"
    /\ op.arg = RecordId(1, 2)
    /\ HasSlot(file.bytes, op.arg)
    /\ SlotAt(file.bytes, op.arg) = DeadSlot
    /\ op.res.err = "InvalidData"

\* The number of slots the header stored in page i says it has (the u64 at
\* bytes 4..12; -1 stands for 2^31 or more).
SlotCount(bytes, i) == u64_from_le_bytes(Slice(PageAt(bytes, i), 4, 8))

\* C17: missing slot.  In every reachable state, read(rid) with
\* rid.page_num < num_pages and rid.slot_num >= the number of slots of that
\* page fails with the invalid-input error, and does not modify the file.
C17_MissingSlot ==
    [][(/\ op'.name = "read"
        /\ op'.arg.page_num < num_pages(file.bytes)
        /\ SlotCount(file.bytes, op'.arg.page_num) >= 0
        /\ op'.arg.slot_num >= SlotCount(file.bytes, op'.arg.page_num))
          => /\ op'.res = ErrMsg("InvalidInput", <<"Slot does not exist">>)
             /\ file' = file]_vars

\* The slot entries of page i, none when its header does not deserialize.
SlotsAt(bytes, i) ==
    With(HdrAt(bytes, i), LAMBDA h : IF h.kind = "ok" THEN h.val.slots_vec ELSE << >>)

\* C18: no Dead or Moved slot is ever produced.  In every state reachable
\* from create by inserts, every slot entry on every page decodes as Valid:
\* its offset is >= 0 and it is not (length = 0 and offset = 0).
C18_AllValid ==
    file.exists
        => \A i \in 0..(num_pages(file.bytes) - 1) :
              \E slots \in {SlotsAt(file.bytes, i)} :
                 \A j \in 1..Len(slots) :
                    /\ slots[j].offset >= 0
                    /\ ~(slots[j].length = 0 /\ slots[j].offset = 0)

\* The pages of the file whose free space is at least required.
Qualifying(bytes, required) ==
    { i \in 0..(num_pages(bytes) - 1) : FreeBefore(bytes, i) >= required }

\* The page a last-fit choice gives: the greatest qualifying page, the
\* number of pages (a newly appended page) when there is none.
LastFit(bytes, required) ==
    With(Qualifying(bytes, required), LAMBDA q :
         IF q = {} THEN num_pages(bytes)
         ELSE CHOOSE i \in q : \A k \in q : k <= i)

\* C19: last-fit page choice.  insert(m) returns page_num equal to the
\* greatest page i < num_pages whose free space (data_start_offset minus
\* the serialized header size) is >= required_space(m), and equal to the old
\* num_pages exactly when no existing page qualifies.
C19_LastFit ==
    [][InsertedOk(op')
          => op'.res.val.page_num
                = LastFit(file.bytes, required_space(attributes, op'.arg).val)]_vars

\* The data_start_offset of page i; a page one past the end counts as a
\* freshly initialised one.
DataStartBefore(bytes, i) ==
    IF i >= num_pages(bytes) THEN PAGE_SIZE
    ELSE i32_from_le_bytes(Slice(PageAt(bytes, i), 0, 4))

\* C20: slot bookkeeping on insert.  On the page that receives the record,
\* insert(m) appends a slot entry whose offset is that page's
\* data_start_offset before the insert minus record_size(m), and lowers the
\* page's data_start_offset by exactly record_size(m).
C20_SlotBookkeeping ==
    [][InsertedOk(op')
          => \E p \in {op'.res.val.page_num} :
             \E rs \in {record_size(attributes, op'.arg).val} :
             \E slots \in {SlotsAt(file'.bytes, p)} :
                /\ DataStartBefore(file'.bytes, p) = DataStartBefore(file.bytes, p) - rs
                /\ Len(slots) > 0
                /\ slots[Len(slots)].offset = DataStartBefore(file.bytes, p) - rs]_vars

\* Every page of before other than page p is the same in after.
OtherPagesUnchanged(before, after, p) ==
    \A i \in 0..(num_pages(before) - 1) :
        i # p => PageAt(after, i) = PageAt(before, i)

\* C21: insert writes exactly one page.  After a successful insert
\* returning rid, every page other than rid.page_num is byte for byte
\* unchanged, and num_pages is unchanged if an existing page qualified and
\* larger by exactly one if none did.
C21_OnePage ==
    [][InsertedOk(op')
          => /\ OtherPagesUnchanged(file.bytes, file'.bytes, op'.res.val.page_num)
             /\ num_pages(file'.bytes)
                   = IF Qualifying(file.bytes, required_space(attributes, op'.arg).val) # {}
                     THEN num_pages(file.bytes)
                     ELSE num_pages(file.bytes) + 1]_vars

\* C22: RecordId uniqueness.  Over any sequence of successful inserts on
\* one file, no two inserts return the same RecordId.
C22_UniqueRids ==
    \A j \in DOMAIN hist : \A k \in DOMAIN hist :
        j # k => hist[j].rid # hist[k].rid

\* The byte range [offset, offset + length) of a slot entry.
Region(slot) == { b \in 0..(PAGE_SIZE - 1) : slot.offset <= b /\ b < slot.offset + slot.length }

\* The regions of the slots of page i are pairwise disjoint and lie within
\* [data_start_offset, PAGE_SIZE).
RegionsOk(bytes, i) ==
    \E slots \in {SlotsAt(bytes, i)} :
    \E d \in {DataStartBefore(bytes, i)} :
       /\ \A j \in 1..Len(slots) :
             /\ slots[j].length >= 0
             /\ d <= slots[j].offset
             /\ slots[j].offset <= PAGE_SIZE - slots[j].length
       /\ \A j \in 1..Len(slots) : \A k \in 1..Len(slots) :
             j # k => Region(slots[j]) \cap Region(slots[k]) = {}

\* The starting offset insert computes at line 129, data_start_offset of
\* the scratch buffer minus the required space, as an integer; 0 when insert
\* does not get that far.
StartingOffset(bytes, attrs, insert_vals, overflow_checks) ==
    With(required_space(attrs, insert_vals), LAMBDA rs :
    IF rs.kind # "ok" THEN 0
    ELSE With(scan_pages(bytes, rs.val, 0,
                  [res |-> Ok(0), page |-> PageNew,
                   page_found |-> FALSE, page_num |-> 0], overflow_checks), LAMBDA scan :
         IF scan.res.kind # "ok" THEN 0
         ELSE With(get_slot_directory_hdr(
                       IF scan.page_found THEN scan.page ELSE init_rb_page(scan.page)),
                   LAMBDA h :
              IF h.kind # "ok" THEN 0 ELSE h.val.data_start_offset - rs.val)))

\* C23: record regions are disjoint and in bounds.  In every state
\* reachable from create by inserts, on every page the byte ranges
\* [offset, offset + length) of the slots are pairwise disjoint and each
\* lies within [data_start_offset, PAGE_SIZE); and insert never computes a
\* negative starting offset.
C23_Regions ==
    file.exists
        => /\ \A i \in 0..(num_pages(file.bytes) - 1) : RegionsOk(file.bytes, i)
           /\ \A insert_vals \in Records :
                 StartingOffset(file.bytes, attributes, insert_vals, checked) >= 0

\* Every value insert_vals has for an attribute of the schema has the
\* attribute's type, a Varchar within its bound.
TypeValid(attrs, insert_vals) ==
    \A i \in Present(attrs, insert_vals) :
        \E ty \in {attrs[i].attribute_type} : \E val \in {insert_vals[attrs[i].name]} :
            /\ val.t = ty.t
            /\ ty.t = "Varchar" => Len(val.v) <= ty.len

\* C24: size assertion.  For every type-valid mapping m, the number of
\* bytes write_record_into_buf writes equals record_size(m) =
\* 2 + ceil(attr_count / 8) + 2 * present_count + the payload sizes, so the
\* debug assertion of insert does not fail, and required_space(m) is
\* 8 + record_size(m).
C24_SizeAssertion ==
    (op.name = "write_record_into_buf" /\ TypeValid(attributes, op.arg))
        => /\ op.res = Ok(RecordSizeFormula(attributes, op.arg))
           /\ record_size(attributes, op.arg) = op.res
           /\ required_space(attributes, op.arg) = Ok(8 + op.res.val)

\* The full record of the test schema has been encoded: 24 bytes.
C24_Witness ==
    /\ op.name = "write_record_into_buf"
    /\ attributes = TestSchema
    /\ DOMAIN op.arg = AttributeNames(TestSchema)
    /\ op.res = Ok(24)

\* insert_vals restricted to the names in S.
Restrict(insert_vals, S) == [k \in (DOMAIN insert_vals) \cap S |-> insert_vals[k]]

\* C25: keys outside the schema are ignored.  From the same file state,
\* insert(m) and insert(m restricted to the schema's attribute names) return
\* the same RecordId (or the same failure) and leave the file in the same
\* state, and read never returns a key that is not a schema attribute name.
C25_ForeignKeys ==
    [][/\ op'.name = "insert"
          => [res |-> op'.res, bytes |-> file'.bytes]
                = insert(file.bytes, attributes,
                         Restrict(op'.arg, AttributeNames(attributes)), checked)
       /\ (op'.name = "read" /\ op'.res.kind = "ok")
          => DOMAIN op'.res.val \subseteq AttributeNames(attributes)]_vars

\* A mapping with a key outside the schema has been inserted, and read
\* returns it without that key.
C25_Witness ==
    /\ op.name = "insert"
    /\ op.arg \in ForeignRecords
    /\ attributes = TestSchema
    /\ op.res.kind = "ok"
    /\ read(file.bytes, attributes, op.res.val, checked)
          = Ok(Restrict(op.arg, AttributeNames(attributes)))
    /\ DOMAIN op.arg # DOMAIN Restrict(op.arg, AttributeNames(attributes))

\* C26: codec round trip with nulls.  For every schema and every type-valid
\* mapping m over it, read_record_from_buf of the bytes written by
\* write_record_into_buf(m) yields a mapping whose keys are exactly the
\* schema attributes present in m, with the values of m; the empty mapping
\* decodes to the empty mapping.
C26_CodecRoundTrip ==
    (op.name = "read_record_from_buf" /\ TypeValid(attributes, op.arg))
        => /\ op.res.kind = "ok"
           /\ DOMAIN op.res.val = {attributes[i].name : i \in Present(attributes, op.arg)}
           /\ \A k \in DOMAIN op.res.val : op.res.val[k] = op.arg[k]
           /\ op.arg = EmptyRecord => op.res = Ok(EmptyRecord)

\* A mapping with a proper, non-empty subset of the attributes has been
\* decoded.
C26_Witness ==
    /\ op.name = "read_record_from_buf"
    /\ attributes = TestSchema
    /\ op.res.kind = "ok"
    /\ DOMAIN op.res.val = {"FirstName", "PowerLevel"}
    /\ op.res.val = op.arg

\* What the chain of Moved hops from rid comes to: a Valid slot, a Dead
\* slot, a missing slot, a missing page, or a RecordId it has already
\* passed (a forwarding cycle).  seen is the RecordIds passed so far.
RECURSIVE ChainKind(_, _, _)
ChainKind(bytes, rid, seen) ==
    IF rid \in seen THEN "cycle"
    ELSE IF rid.page_num < 0 \/ rid.page_num >= num_pages(bytes) THEN "missing page"
    ELSE IF ~HasSlot(bytes, rid) THEN "missing slot"
    ELSE With(SlotAt(bytes, rid), LAMBDA slot :
         IF slot.offset < 0
         THEN With(seen \cup {rid}, LAMBDA seen2 : ChainKind(bytes, MovedTarget(slot), seen2))
         ELSE IF slot.length = 0 /\ slot.offset = 0 THEN "Dead"
         ELSE "Valid")

\* C27: read termination.  read(rid) terminates, with a record or an
\* error, whenever the Moved chain starting at rid reaches a Valid slot, a
\* Dead slot, a missing slot or a missing page in finitely many hops, and
\* never terminates when the chain contains a forwarding cycle.
C27_Termination ==
    op.name = "read"
        => IF ChainKind(file.bytes, op.arg, {}) = "cycle"
           THEN op.res.kind = "diverge"
           ELSE op.res.kind \in {"ok", "err"}

====
